---------------------------- MODULE Spec2Model ----------------------------
(***************************************************************************)
(* A model of the problem aggregate of app.py: the normaliser, the two     *)
(* summary builders, the tutorial composer, the keyword query engine, and  *)
(* the request handlers that replace and read the module-level aggregate.  *)
(*                                                                         *)
(* Python values are modelled as follows.  A str is a TLA+ string.  A list *)
(* is a sequence.  A dict, which keeps insertion order, is a sequence of   *)
(* records with a field "key".  Raw JSON values, whose type the normaliser *)
(* inspects, carry a type tag (see the section "Raw JSON values").         *)
(***************************************************************************)
EXTENDS Integers, Sequences, FiniteSets, TLC

VARIABLES
    PROBLEMS,           \* app.py:331  module global
    CATEGORIES,         \* app.py:332  module global
    PATTERNS,           \* app.py:333  module global
    TUTORIAL,           \* app.py:334  module global
    DATA_SOURCE,        \* app.py:335  module global
    LAST_REFRESHED_AT,  \* app.py:336  module global
    environ,            \* os.environ["LEETCODE_MCP_SERVER"], "" when unset
    clock,              \* datetime.utcnow() truncated to seconds
    thr,                \* request threads: position and local variables
    arg,                \* the arguments of a function called on its own
    ret                 \* the result of that call

globals == <<PROBLEMS, CATEGORIES, PATTERNS, TUTORIAL, DATA_SOURCE, LAST_REFRESHED_AT>>
vars == <<PROBLEMS, CATEGORIES, PATTERNS, TUTORIAL, DATA_SOURCE, LAST_REFRESHED_AT,
          environ, clock, thr, arg, ret>>

-----------------------------------------------------------------------------
(* Sequences *)

Range(s) == {s[i] : i \in 1..Len(s)}

\* name = value; Body(name): the value is computed once, where the name is
\* bound, and not again where the name is used.
Bind(value, Body(_)) == CHOOSE result \in {Body(name) : name \in {value}} : TRUE

Min(a, b) == IF a <= b THEN a ELSE b

\* s[:n]
Take(s, n) == SubSeq(s, 1, Min(n, Len(s)))

\* [x for x in s if Keep(x)]
Filter(s, Keep(_)) ==
    LET f[i \in 0..Len(s)] ==
            IF i = 0 THEN <<>>
            ELSE f[i - 1] \o (IF Keep(s[i]) THEN <<s[i]>> ELSE <<>>)
    IN  f[Len(s)]

\* sum(F(x) for x in s)
SumOf(s, F(_)) ==
    LET f[i \in 0..Len(s)] == IF i = 0 THEN 0 ELSE f[i - 1] + F(s[i])
    IN  f[Len(s)]

\* All sequences over S of length at most n.
RECURSIVE SeqsUpTo(_, _)
SeqsUpTo(S, n) ==
    IF n = 0 THEN {<<>>}
    ELSE LET shorter == SeqsUpTo(S, n - 1)
         IN  shorter \cup {Append(s, x) : s \in {t \in shorter : Len(t) = n - 1}, x \in S}

-----------------------------------------------------------------------------
(* Strings.  TLC gives Len, SubSeq and \o on strings; characters are the   *)
(* strings of length one.                                                  *)

\* The characters the model uses, in code point order.
Alphabet == " ',-./0123456789:ABCDEFGHIJKLMNOPQRSTUVWXYZabcdefghijklmnopqrstuvwxyz"

CharAt(s, i) == SubSeq(s, i, i)

Ord(c) == CHOOSE i \in 1..Len(Alphabet) : CharAt(Alphabet, i) = c

UpperCase == "ABCDEFGHIJKLMNOPQRSTUVWXYZ"
LowerCase == "abcdefghijklmnopqrstuvwxyz"

LowerChar(c) ==
    IF \E i \in 1..Len(UpperCase) : CharAt(UpperCase, i) = c
    THEN CharAt(LowerCase, CHOOSE i \in 1..Len(UpperCase) : CharAt(UpperCase, i) = c)
    ELSE c

\* str.lower()
RECURSIVE Lower(_)
Lower(s) ==
    IF Len(s) = 0 THEN ""
    ELSE LowerChar(CharAt(s, 1)) \o Lower(SubSeq(s, 2, Len(s)))

\* The whitespace that str.strip() removes, among the characters of JSON
\* text.
IsSpace(c) == c \in {" ", "\t", "\n", "\r", "\f"}

\* str.strip()
RECURSIVE LStrip(_)
LStrip(s) ==
    IF Len(s) > 0 /\ IsSpace(CharAt(s, 1)) THEN LStrip(SubSeq(s, 2, Len(s))) ELSE s

RECURSIVE RStrip(_)
RStrip(s) ==
    IF Len(s) > 0 /\ IsSpace(CharAt(s, Len(s))) THEN RStrip(SubSeq(s, 1, Len(s) - 1)) ELSE s

Strip(s) == RStrip(LStrip(s))

\* sub in s
Contains(s, sub) ==
    \E i \in 1..(Len(s) - Len(sub) + 1) : SubSeq(s, i, i + Len(sub) - 1) = sub

\* a < b for str
RECURSIVE StrLess(_, _)
StrLess(a, b) ==
    IF Len(b) = 0 THEN FALSE
    ELSE IF Len(a) = 0 THEN TRUE
    ELSE IF CharAt(a, 1) = CharAt(b, 1)
         THEN StrLess(SubSeq(a, 2, Len(a)), SubSeq(b, 2, Len(b)))
         ELSE Ord(CharAt(a, 1)) < Ord(CharAt(b, 1))

Digits == "0123456789"

\* str(n) and "{}".format(n) for an int n >= 0
RECURSIVE IntToStr(_)
IntToStr(n) ==
    IF n < 10 THEN CharAt(Digits, n + 1)
    ELSE IntToStr(n \div 10) \o CharAt(Digits, (n % 10) + 1)

\* sep.join(parts)
RECURSIVE Join(_, _)
Join(parts, sep) ==
    IF parts = <<>> THEN ""
    ELSE IF Len(parts) = 1 THEN parts[1]
    ELSE parts[1] \o sep \o Join(Tail(parts), sep)

-----------------------------------------------------------------------------
(* dict and collections.Counter, both insertion ordered *)

Keys(d) == [i \in 1..Len(d) |-> d[i].key]

HasKey(d, k) == \E i \in 1..Len(d) : d[i].key = k

IndexOf(d, k) == CHOOSE i \in 1..Len(d) : d[i].key = k

Lookup(d, k) == d[IndexOf(d, k)]

\* A counter that notes a key once and does not count it again.
CounterAddOnce(c, k) ==
    IF HasKey(c, k) THEN c ELSE Append(c, [key |-> k, n |-> 1])

\* counter[k] += 1
CounterAdd(c, k) ==
    IF HasKey(c, k)
    THEN [c EXCEPT ![IndexOf(c, k)].n = @ + 1]
    ELSE Append(c, [key |-> k, n |-> 1])

\* counter.update(iterable)
RECURSIVE CounterUpdate(_, _)
CounterUpdate(c, items) ==
    IF items = <<>> THEN c
    ELSE Bind(CounterAdd(c, Head(items)), LAMBDA added : CounterUpdate(added, Tail(items)))

\* One step of a stable insertion: x goes in front of the first element it
\* must precede, so behind every element it ties with.
InsertStable(sorted, x, Before(_, _)) ==
    LET later == {i \in 1..Len(sorted) : Before(x, sorted[i])}
        at == IF later = {} THEN Len(sorted) + 1
              ELSE CHOOSE i \in later : \A j \in later : i <= j
    IN  SubSeq(sorted, 1, at - 1) \o <<x>> \o SubSeq(sorted, at, Len(sorted))

\* sorted(s, ...): stable; Before(x, y) iff x must precede y.
SortedStable(s, Before(_, _)) ==
    LET f[i \in 0..Len(s)] ==
            IF i = 0 THEN <<>>
            ELSE Bind(f[i - 1], LAMBDA sorted : InsertStable(sorted, s[i], Before))
    IN  f[Len(s)]

\* most_common with equal counts ordered by key.
MostCommonTiesByKey(c) ==
    SortedStable(c, LAMBDA x, y : x.n > y.n \/ (x.n = y.n /\ StrLess(x.key, y.key)))

\* Counter.most_common(): sorted(items, key=count, reverse=True), stable
MostCommon(c) == SortedStable(c, LAMBDA x, y : x.n > y.n)

\* sorted(counter.items()): by key (keys are distinct)
SortedByKey(c) == SortedStable(c, LAMBDA x, y : StrLess(x.key, y.key))

-----------------------------------------------------------------------------
(* Raw JSON values.  json.loads yields None, str, int, list and dict; the  *)
(* normaliser and the question handler look at the type and at the truth   *)
(* value, so a raw value carries its type.  A dict is the sequence of its  *)
(* items, in order, each [key |-> k, val |-> v].                           *)

None == [t |-> "none"]
StrV(s) == [t |-> "str", v |-> s]
IntV(n) == [t |-> "int", v |-> n]
ListV(items) == [t |-> "list", v |-> items]
DictV(items) == [t |-> "dict", v |-> items]

\* bool(value)
Truthy(value) ==
    CASE value.t = "none" -> FALSE
      [] value.t = "str" -> value.v # ""
      [] value.t = "int" -> value.v # 0
      [] value.t = "list" -> value.v # <<>>
      [] value.t = "dict" -> value.v # <<>>

\* a or b
Or(a, b) == IF Truthy(a) THEN a ELSE b

\* entry.get(key), for a dict entry
Get(entry, key) == IF HasKey(entry.v, key) THEN Lookup(entry.v, key).val ELSE None

\* str(item) and "{}" in an f-string, for the scalars
PyStr(item) ==
    CASE item.t = "str" -> item.v
      [] item.t = "int" -> IntToStr(item.v)
      [] item.t = "none" -> "None"

\* What a call leaves its caller with: a value, or an exception.
Returned(value) == [raised |-> FALSE, value |-> value]
Raised(exc) == [raised |-> TRUE, exc |-> exc]

\* The call ended in an exception.
Raises(outcome) == "raised" \in DOMAIN outcome /\ outcome.raised

\* [str(item) for item in items]: the empty items kept.
StrItemsKeepEmpty(items) == [i \in 1..Len(items) |-> PyStr(items[i])]

\* [str(item) for item in items if item]
StrItems(items) ==
    LET kept == Filter(items, Truthy)
    IN  [i \in 1..Len(kept) |-> PyStr(kept[i])]

-----------------------------------------------------------------------------
(* Normaliser: app.py normalise_sequence, normalise_mcp_problem *)

\* normalise_sequence (app.py:37-46)
normalise_sequence(value) ==
    IF ~Truthy(value) THEN <<>>
    ELSE IF value.t = "str" THEN <<value.v>>
    ELSE IF value.t = "dict" THEN StrItems([i \in 1..Len(value.v) |-> value.v[i].val])
    ELSE IF value.t = "list" THEN StrItems(value.v)
    ELSE <<>>

DefaultSummary == "Generated from leetcode-mcp-server data."

\* UrlOf without the test of the slug: a url is made of whatever the slug is.
UrlOfAnySlug(entry) ==
    LET slug == Or(Get(entry, "slug"), Get(entry, "titleSlug"))
        url == Get(entry, "url")
    IN  IF ~Truthy(url)
        THEN StrV("https://leetcode.com/problems/" \o PyStr(slug) \o "/")
        ELSE url

\* url after app.py:56-58
UrlOf(entry) ==
    LET slug == Or(Get(entry, "slug"), Get(entry, "titleSlug"))
        url == Get(entry, "url")
    IN  IF ~Truthy(url) /\ Truthy(slug)
        THEN StrV("https://leetcode.com/problems/" \o PyStr(slug) \o "/")
        ELSE url

\* title (app.py:55)
TitleOf(entry) == Or(Or(Get(entry, "title"), Get(entry, "name")), Get(entry, "question"))

\* The id with the slug consulted before the three id keys.
IdOfSlugFirst(entry) ==
    LET problem_id == Or(Or(Get(entry, "id"), Get(entry, "questionId")),
                         Get(entry, "frontendQuestionId"))
        slug == Or(Get(entry, "slug"), Get(entry, "titleSlug"))
    IN  Or(Or(slug, problem_id), TitleOf(entry))

\* problem_id or slug or title (app.py:53-54, 88)
IdOf(entry) ==
    LET problem_id == Or(Or(Get(entry, "id"), Get(entry, "questionId")),
                         Get(entry, "frontendQuestionId"))
        slug == Or(Get(entry, "slug"), Get(entry, "titleSlug"))
    IN  Or(Or(problem_id, slug), TitleOf(entry))

\* The test of app.py:50 as "entry is not None": a str or a list passes.
IsMappingNotNone(entry) == entry.t # "none"

\* isinstance(entry, dict) (app.py:50)
IsMapping(entry) == entry.t = "dict"

\* The test of app.py:60 with "is None" in the place of "not": an empty
\* title or url passes.
MissingNoneOnly(title, url) == title.t = "none" \/ url.t = "none"

\* not title or not url (app.py:60)
Missing(title, url) == ~Truthy(title) \/ ~Truthy(url)

\* normalise_mcp_problem (app.py:49-96).  The result is None or the problem
\* dict, whose scalar fields are the raw values themselves, untagged here.
\* entry.get (app.py:53) exists for a dict only: on any other value that
\* reached it, the call would raise AttributeError.
normalise_mcp_problem(entry) ==
    IF ~IsMapping(entry) THEN None
    ELSE IF entry.t # "dict" THEN Raised("AttributeError")
    ELSE
    LET title == TitleOf(entry)
        url == UrlOf(entry)
        topics == normalise_sequence(
                    Or(Or(Or(Or(Get(entry, "topic"), Get(entry, "topics")),
                             Get(entry, "category")), Get(entry, "categoryTags")),
                       Get(entry, "tags")))
        patterns == normalise_sequence(
                    Or(Or(Or(Get(entry, "patterns"), Get(entry, "patternTags")),
                          Get(entry, "techniques")), Get(entry, "strategies")))
        summary == Or(Or(Or(Or(Get(entry, "summary"), Get(entry, "synopsis")),
                            Get(entry, "description")), Get(entry, "shortDescription")),
                      StrV(DefaultSummary))
        hints == normalise_sequence(
                    Or(Or(Get(entry, "key_steps"), Get(entry, "hints")),
                       Get(entry, "solutionOutline")))
    IN  IF Missing(title, url) THEN None
        ELSE [id |-> IdOf(entry).v,
              title |-> title.v,
              url |-> url.v,
              difficulty |-> Or(Or(Or(Get(entry, "difficulty"), Get(entry, "level")),
                                   Get(entry, "difficultyLevel")), StrV("Unknown")).v,
              topic |-> IF topics # <<>> THEN topics[1] ELSE "General",
              patterns |-> IF patterns # <<>> THEN patterns ELSE <<"General Strategy">>,
              summary |-> summary.v,
              key_steps |-> hints]

-----------------------------------------------------------------------------
(* Loading: app.py fetch_problems_from_mcp, load_local_problems,           *)
(* load_problems                                                           *)

\* The classes an exception is an instance of: its own and its bases, as the
\* standard library declares them.
Bases(exc) ==
    CASE exc = "HTTPError" -> {"HTTPError", "URLError", "OSError", "Exception"}
      [] exc = "URLError" -> {"URLError", "OSError", "Exception"}
      [] exc = "TimeoutError" -> {"TimeoutError", "OSError", "Exception"}
      [] exc = "ConnectionResetError" ->
            {"ConnectionResetError", "ConnectionError", "OSError", "Exception"}
      [] exc = "IncompleteRead" -> {"IncompleteRead", "HTTPException", "Exception"}
      [] exc = "JSONDecodeError" -> {"JSONDecodeError", "ValueError", "Exception"}
      [] exc = "ValueError" -> {"ValueError", "Exception"}
      [] OTHER -> {exc, "Exception"}

\* The except clause without ValueError.
CaughtWithoutValueError == {"URLError", "HTTPError", "TimeoutError"}

\* except (URLError, HTTPError, TimeoutError, ValueError) (app.py:129)
CaughtByLoad == {"URLError", "HTTPError", "TimeoutError", "ValueError"}

\* What urlopen, response.read() and json.loads (app.py:103-104) can leave
\* the fetch with: the decoded payload, or one of the exceptions they raise.
\* URLError: the connection is refused.  HTTPError: a 4xx or 5xx status.
\* TimeoutError: no answer within the timeout.  JSONDecodeError: the body is
\* not JSON.  ConnectionResetError: the peer resets the connection while the
\* status line is read.  IncompleteRead: the body ends before Content-Length.
FetchErrors ==
    {"URLError", "HTTPError", "TimeoutError", "JSONDecodeError",
     "ConnectionResetError", "IncompleteRead"}

Failed(exc) == [ok |-> FALSE, exc |-> exc]
Replied(payload) == [ok |-> TRUE, payload |-> payload]

\* [normalised for raw in problem_payload if normalised] (app.py:110-114)
NormaliseAll(problem_payload) ==
    LET normalised == [i \in 1..Len(problem_payload) |->
                          normalise_mcp_problem(problem_payload[i])]
    IN  Filter(normalised, LAMBDA p : p # None)

\* fetch_problems_from_mcp (app.py:99-120), given what the server did
fetch_problems_from_mcp(reply) ==
    IF ~reply.ok THEN Raised(reply.exc)
    ELSE LET payload == reply.payload
             problem_payload ==
                IF payload.t = "dict" THEN Get(payload, "problems") ELSE payload
         IN  IF problem_payload.t # "list" THEN Raised("ValueError")
             ELSE IF \E i \in 1..Len(problem_payload.v) :
                        Raises(normalise_mcp_problem(problem_payload.v[i]))
             THEN normalise_mcp_problem(problem_payload.v[
                      CHOOSE i \in 1..Len(problem_payload.v) :
                          /\ Raises(normalise_mcp_problem(problem_payload.v[i]))
                          /\ \A j \in 1..(i - 1) :
                                ~Raises(normalise_mcp_problem(problem_payload.v[j]))])
             ELSE Bind(NormaliseAll(problem_payload.v), LAMBDA problems :
                    IF problems = <<>> THEN Raised("ValueError") ELSE Returned(problems))

RemoteSource(endpoint) == "leetcode-mcp-server (" \o endpoint \o ")"
LocalSource == "local dataset (data/problems.json)"

\* A canonical problem record.
Problem(id, title, difficulty, topic, patterns) ==
    [id |-> id, title |-> title, url |-> "https://leetcode.com/problems/" \o id \o "/",
     difficulty |-> difficulty, topic |-> topic, patterns |-> patterns,
     summary |-> "s", key_steps |-> <<>>]

\* load_local_problems (app.py:31-34): the content of data/problems.json,
\* which is returned as parsed, without normalisation.
LocalProblems ==
    << Problem("two-sum", "Two Sum", "Easy", "Array", <<"Hash Map">>),
       Problem("climbing-stairs", "Climbing Stairs", "Easy", "Dynamic Programming",
               <<"Dynamic Programming">>),
       Problem("3sum", "3Sum", "Medium", "Array", <<"Two Pointers", "Hash Map">>) >>

load_local_problems == LocalProblems

\* load_problems (app.py:123-133).  endpoint is the value of the environment
\* variable ("" when unset), reply what the server does when asked.
load_problems(endpoint, reply) ==
    Bind(fetch_problems_from_mcp(reply), LAMBDA fetched :
        IF endpoint # "" /\ ~fetched.raised
        THEN Returned([problems |-> fetched.value, source |-> RemoteSource(endpoint)])
        ELSE IF endpoint # "" /\ (Bases(fetched.exc) \cap CaughtByLoad) = {}
        THEN Raised(fetched.exc)
        ELSE Returned([problems |-> load_local_problems, source |-> LocalSource]))

-----------------------------------------------------------------------------
(* Aggregator: app.py build_category_summary, build_pattern_summary *)

\* len(entry["examples"]) < 5 (app.py:161)
ExampleCap == 5

\* The excerpt of a problem kept as a pattern example (app.py:162-169).
Example(problem) ==
    [id |-> problem.id, title |-> problem.title, difficulty |-> problem.difficulty,
     topic |-> problem.topic, url |-> problem.url, summary |-> problem.summary]

\* CategoryStep where the problem that creates the entry of its topic is not
\* counted.
CategoryStepNewTopicUncounted(categories, problem) ==
    LET topic == problem.topic
        withTopic ==
            IF HasKey(categories, topic) THEN categories
            ELSE Append(categories,
                        [key |-> topic, count |-> 0, difficulties |-> <<>>, patterns |-> <<>>])
        i == IndexOf(withTopic, topic)
    IN  [withTopic EXCEPT
            ![i].count = IF HasKey(categories, topic) THEN @ + 1 ELSE @,
            ![i].difficulties = CounterAdd(@, problem.difficulty),
            ![i].patterns = CounterUpdate(@, problem.patterns)]

\* The body of the loop of build_category_summary for one problem
\* (app.py:139-146).
CategoryStep(categories, problem) ==
    LET topic == problem.topic
        withTopic ==
            IF HasKey(categories, topic) THEN categories
            ELSE Append(categories,
                        [key |-> topic, count |-> 0, difficulties |-> <<>>, patterns |-> <<>>])
        i == IndexOf(withTopic, topic)
    IN  [withTopic EXCEPT
            ![i].count = @ + 1,
            ![i].difficulties = CounterAdd(@, problem.difficulty),
            ![i].patterns = CounterUpdate(@, problem.patterns)]

\* build_category_summary (app.py:136-151)
build_category_summary(problems) ==
    LET loop[i \in 0..Len(problems)] ==
            IF i = 0 THEN <<>>
            ELSE Bind(loop[i - 1], LAMBDA categories : CategoryStep(categories, problems[i]))
        Converted(categories) ==
            [i \in 1..Len(categories) |->
                [categories[i] EXCEPT
                    !.difficulties = SortedByKey(@),
                    !.patterns = MostCommon(@)]]
    IN  Bind(loop[Len(problems)], LAMBDA categories :
            Bind(Converted(categories), LAMBDA converted :
                SortedStable(converted, LAMBDA x, y : x.count > y.count)))

\* PatternStep with the test of the cap off by one: a sixth example is kept.
PatternStepSixExamples(patterns, problem, pattern) ==
    LET withPattern ==
            IF HasKey(patterns, pattern) THEN patterns
            ELSE Append(patterns,
                        [key |-> pattern, count |-> 0, topics |-> <<>>, examples |-> <<>>])
        i == IndexOf(withPattern, pattern)
    IN  [withPattern EXCEPT
            ![i].count = @ + 1,
            ![i].topics = CounterAdd(@, problem.topic),
            ![i].examples = IF Len(@) <= ExampleCap THEN Append(@, Example(problem)) ELSE @]

\* The body of the inner loop of build_pattern_summary for one pattern of one
\* problem (app.py:158-169).
PatternStep(patterns, problem, pattern) ==
    LET withPattern ==
            IF HasKey(patterns, pattern) THEN patterns
            ELSE Append(patterns,
                        [key |-> pattern, count |-> 0, topics |-> <<>>, examples |-> <<>>])
        i == IndexOf(withPattern, pattern)
    IN  [withPattern EXCEPT
            ![i].count = @ + 1,
            ![i].topics = CounterAdd(@, problem.topic),
            ![i].examples = IF Len(@) < ExampleCap THEN Append(@, Example(problem)) ELSE @]

\* The loop over the patterns of a problem taken as a set: a pattern the
\* problem lists twice is counted once.
PatternsOfProblemOnce(patterns, problem, rest) ==
    LET loop[i \in 0..Len(rest)] ==
            IF i = 0 THEN patterns
            ELSE IF \E j \in 1..(i - 1) : rest[j] = rest[i] THEN loop[i - 1]
            ELSE Bind(loop[i - 1], LAMBDA stepped : PatternStep(stepped, problem, rest[i]))
    IN  loop[Len(rest)]

\* for pattern in problem["patterns"]: ... (app.py:157)
RECURSIVE PatternsOfProblem(_, _, _)
PatternsOfProblem(patterns, problem, rest) ==
    IF rest = <<>> THEN patterns
    ELSE Bind(PatternStep(patterns, problem, Head(rest)), LAMBDA stepped :
            PatternsOfProblem(stepped, problem, Tail(rest)))

\* "Appears in {} problems across {} topic(s)." (app.py:173-177, 196-200)
WhyItMatters(count, topics) ==
    "Appears in " \o IntToStr(count) \o " problems across "
        \o IntToStr(Len(topics)) \o " topic(s)."

\* build_pattern_summary (app.py:154-178)
build_pattern_summary(problems) ==
    LET loop[i \in 0..Len(problems)] ==
            IF i = 0 THEN <<>>
            ELSE Bind(loop[i - 1], LAMBDA patterns :
                    PatternsOfProblem(patterns, problems[i], problems[i].patterns))
        Converted(patterns) ==
            [i \in 1..Len(patterns) |->
                Bind(MostCommon(patterns[i].topics), LAMBDA topics :
                    [key |-> patterns[i].key,
                     count |-> patterns[i].count,
                     topics |-> topics,
                     examples |-> patterns[i].examples,
                     why_it_matters |-> WhyItMatters(patterns[i].count, topics)])]
    IN  Bind(loop[Len(problems)], LAMBDA patterns :
            Bind(Converted(patterns), LAMBDA converted :
                SortedStable(converted, LAMBDA x, y : x.count > y.count)))

-----------------------------------------------------------------------------
(* Tutorial composer: app.py build_tutorial *)

\* build_tutorial (app.py:181-242)
build_tutorial(categories, patterns) ==
    LET category_highlights ==
            [i \in 1..Len(categories) |->
                [topic |-> categories[i].key,
                 count |-> categories[i].count,
                 key_patterns |-> Take(Keys(categories[i].patterns), 3)]]
        top_patterns == Take(patterns, 5)
        pattern_spotlight ==
            [i \in 1..Len(top_patterns) |->
                [pattern |-> top_patterns[i].key,
                 why_it_matters |-> WhyItMatters(top_patterns[i].count, top_patterns[i].topics),
                 top_topics |-> Take(Keys(top_patterns[i].topics), 3),
                 examples |-> top_patterns[i].examples]]
        study_plan ==
            << [title |-> "Build core intuition",
                steps |-> <<
                    "Start with easy problems in the most common categories: "
                        \o Join(Take(Keys(categories), 3), ", ") \o ".",
                    "Focus on one pattern at a time, try solving multiple problems that require "
                        \o (IF pattern_spotlight # <<>> THEN pattern_spotlight[1].pattern
                            ELSE "a shared technique") \o ".",
                    "Document the decision points you make for each solution to internalize the pattern." >>],
               [title |-> "Layer on complexity",
                steps |-> <<
                    "Move to medium problems and look for variations of familiar patterns.",
                    "Identify how constraints change the data structure or traversal strategy.",
                    "Compare multiple patterns that solve the same problem to understand trade-offs." >>],
               [title |-> "Synthesize across patterns",
                steps |-> <<
                    "Pick hard problems that blend categories, such as combining graph searches with dynamic programming.",
                    "Create quick-reference cards highlighting when to choose each pattern.",
                    "Teach the concept to someone else or write your own summary as a final checkpoint." >>] >>
    IN  [category_highlights |-> category_highlights,
         pattern_spotlight |-> pattern_spotlight,
         study_plan |-> study_plan]

-----------------------------------------------------------------------------
(* Query engine: app.py answer_question *)

\* The cap of the related problems off by one.
RelatedCapOffByOne == 8 + 1

\* related[:8] (app.py:324)
RelatedCap == 8

GuidanceAnswer ==
    "Try asking about a topic (e.g. dynamic programming) or a specific pattern (e.g. sliding window)."

FallbackAnswer ==
    "I could not find an exact match. Try referencing a topic (array, graph) or a pattern (two pointers, dynamic programming)."

GenericSentence ==
    "Here are problems matching your query. Consider refining the question with a topic or pattern keyword for deeper insights."

\* keywords (app.py:273-277), in insertion order
DifficultyKeywords ==
    << [word |-> "easy", diff |-> "Easy"],
       [word |-> "medium", diff |-> "Medium"],
       [word |-> "hard", diff |-> "Hard"] >>

\* The question lowered and not stripped.
NormalizedUnstripped(question) == Lower(question)

\* question.strip().lower() (app.py:251)
Normalized(question) == Lower(Strip(question))

\* The names looked for as they are written, not lowered.
HitsCaseSensitive(summary, normalized) ==
    Filter(Keys(summary), LAMBDA name : Contains(normalized, name))

\* [name for name in summary if name.lower() in normalized] (app.py:258-259)
Hits(summary, normalized) ==
    Filter(Keys(summary), LAMBDA name : Contains(normalized, Lower(name)))

\* The difficulty looked for in the place of its keyword: "Easy", not "easy".
DifficultyHitsByName(normalized) ==
    {DifficultyKeywords[i].diff :
        i \in {j \in 1..Len(DifficultyKeywords) :
                 Contains(normalized, DifficultyKeywords[j].diff)}}

\* {diff for word, diff in keywords.items() if word in normalized} (app.py:278)
DifficultyHits(normalized) ==
    {DifficultyKeywords[i].diff :
        i \in {j \in 1..Len(DifficultyKeywords) :
                 Contains(normalized, DifficultyKeywords[j].word)}}

\* The excerpt of a problem returned as related (app.py:265-271, 282-288).
RelatedEntry(problem) ==
    [id |-> problem.id, title |-> problem.title, difficulty |-> problem.difficulty,
     topic |-> problem.topic, url |-> problem.url]

\* The list "related" with the difficulty words of the question applied to
\* the problems that the topics and patterns select as well.
RelatedAlsoByDifficulty(normalized, categories, patterns, problems) ==
    LET topic_hits == Hits(categories, normalized)
        pattern_hits == Hits(patterns, normalized)
        difficulties == DifficultyHits(normalized)
        chosen ==
            Filter(problems,
                   LAMBDA p : /\ \/ topic_hits = <<>> /\ pattern_hits = <<>>
                                 \/ p.topic \in Range(topic_hits)
                                 \/ \E i \in 1..Len(p.patterns) :
                                       p.patterns[i] \in Range(pattern_hits)
                              /\ \/ difficulties = {} /\ (topic_hits # <<>> \/ pattern_hits # <<>>)
                                 \/ p.difficulty \in difficulties)
    IN  [i \in 1..Len(chosen) |-> RelatedEntry(chosen[i])]

\* The list "related" ranked: the problems that carry a matched pattern, then
\* the others of a matched topic.
RelatedPatternsFirst(normalized, categories, patterns, problems) ==
    LET topic_hits == Hits(categories, normalized)
        pattern_hits == Hits(patterns, normalized)
        difficulties == DifficultyHits(normalized)
        carries(p) == \E i \in 1..Len(p.patterns) : p.patterns[i] \in Range(pattern_hits)
        chosen ==
            IF topic_hits # <<>> \/ pattern_hits # <<>>
            THEN Filter(problems, carries)
                 \o Filter(problems, LAMBDA p : p.topic \in Range(topic_hits) /\ ~carries(p))
            ELSE IF difficulties # {}
            THEN Filter(problems, LAMBDA p : p.difficulty \in difficulties)
            ELSE <<>>
    IN  [i \in 1..Len(chosen) |-> RelatedEntry(chosen[i])]

\* The list "related" after app.py:261-288.
Related(normalized, categories, patterns, problems) ==
    LET topic_hits == Hits(categories, normalized)
        pattern_hits == Hits(patterns, normalized)
        difficulties == DifficultyHits(normalized)
        chosen ==
            IF topic_hits # <<>> \/ pattern_hits # <<>>
            THEN Filter(problems,
                        LAMBDA p : \/ p.topic \in Range(topic_hits)
                                   \/ \E i \in 1..Len(p.patterns) :
                                         p.patterns[i] \in Range(pattern_hits))
            ELSE IF difficulties # {}
            THEN Filter(problems, LAMBDA p : p.difficulty \in difficulties)
            ELSE <<>>
    IN  [i \in 1..Len(chosen) |-> RelatedEntry(chosen[i])]

\* The sentence for one matched topic (app.py:299-306).
TopicSentence(categories, topic) ==
    LET data == Lookup(categories, topic)
        common == Join(Take(Keys(data.patterns), 3), ", ")
    IN  "For " \o topic \o " problems, focus on " \o Join(Keys(data.difficulties), ", ")
            \o ". Common patterns: " \o (IF common # "" THEN common ELSE "varied techniques")
            \o "."

\* The sentence for one matched pattern (app.py:309-317).
PatternSentence(patterns, pattern) ==
    LET data == Lookup(patterns, pattern)
        shown == Take(data.examples, 2)
    IN  pattern \o " appears in " \o IntToStr(data.count) \o " problems across "
            \o IntToStr(Len(data.topics)) \o " topic(s). Practice with examples like "
            \o Join([i \in 1..Len(shown) |-> shown[i].title], ", ") \o "."

\* summary_parts with the sentences of the patterns before those of the
\* topics.
SummaryPartsPatternsFirst(normalized, categories, patterns) ==
    LET topic_hits == Hits(categories, normalized)
        pattern_hits == Hits(patterns, normalized)
        parts ==
            [i \in 1..Len(pattern_hits) |-> PatternSentence(patterns, pattern_hits[i])]
            \o [i \in 1..Len(topic_hits) |-> TopicSentence(categories, topic_hits[i])]
    IN  IF parts = <<>> THEN <<GenericSentence>> ELSE parts

\* summary_parts (app.py:296-322)
SummaryParts(normalized, categories, patterns) ==
    LET topic_hits == Hits(categories, normalized)
        pattern_hits == Hits(patterns, normalized)
        parts ==
            [i \in 1..Len(topic_hits) |-> TopicSentence(categories, topic_hits[i])]
            \o [i \in 1..Len(pattern_hits) |-> PatternSentence(patterns, pattern_hits[i])]
    IN  IF parts = <<>> THEN <<GenericSentence>> ELSE parts

\* answer_question (app.py:245-324).  The question is the value the caller
\* passes, of whatever type: only a str has strip().
answer_question(question, categories, patterns, problems) ==
    IF question.t # "str" THEN Raised("AttributeError")
    ELSE LET normalized == Normalized(question.v)
             related == Related(normalized, categories, patterns, problems)
         IN  IF normalized = ""
             THEN Returned([answer |-> GuidanceAnswer, related_problems |-> <<>>])
             ELSE IF related = <<>>
             THEN Returned([answer |-> FallbackAnswer, related_problems |-> <<>>])
             ELSE Returned([answer |-> Join(SummaryParts(normalized, categories, patterns), " "),
                            related_problems |-> Take(related, RelatedCap)])

-----------------------------------------------------------------------------
(* The pipeline: app.py initialise_data *)

\* initialise_data (app.py:347-353): the six values of one pipeline run, or
\* the exception load_problems raised.  now is datetime.utcnow() in seconds.
initialise_data(endpoint, reply, now) ==
    Bind(load_problems(endpoint, reply), LAMBDA loaded :
        IF loaded.raised THEN loaded
        ELSE Bind(build_category_summary(loaded.value.problems), LAMBDA categories :
             Bind(build_pattern_summary(loaded.value.problems), LAMBDA patterns :
                Returned([problems |-> loaded.value.problems,
                          categories |-> categories,
                          patterns |-> patterns,
                          tutorial |-> build_tutorial(categories, patterns),
                          source |-> loaded.value.source,
                          timestamp |-> now]))))

-----------------------------------------------------------------------------
(* The environment: the endpoint and raw records as a server sends them *)

Endpoint == "http://mcp"

\* Two raw records as the server sends them.
RemoteEntryA ==
    DictV(<< [key |-> "title", val |-> StrV("Two Sum")],
             [key |-> "slug", val |-> StrV("two-sum")],
             [key |-> "difficulty", val |-> StrV("Easy")],
             [key |-> "topics", val |-> ListV(<<StrV("Graph")>>)],
             [key |-> "patterns", val |-> ListV(<<StrV("Hash Map")>>)] >>)

RemoteEntryB ==
    DictV(<< [key |-> "name", val |-> StrV("Islands")],
             [key |-> "url", val |-> StrV("https://leetcode.com/problems/islands/")],
             [key |-> "questionId", val |-> StrV("200")],
             [key |-> "level", val |-> StrV("Medium")],
             [key |-> "tags", val |-> StrV("Graph")],
             [key |-> "techniques", val |-> StrV("Two Pointers")] >>)

\* A raw record without title and one without url and slug.
UntitledEntry == DictV(<< [key |-> "slug", val |-> StrV("untitled")] >>)
UnaddressedEntry == DictV(<< [key |-> "title", val |-> StrV("Nowhere")] >>)

\* Raw records whose title, and whose url, is the empty string.
BlankTitleEntry ==
    DictV(<< [key |-> "title", val |-> StrV("")],
             [key |-> "question", val |-> StrV("")],
             [key |-> "slug", val |-> StrV("blank")] >>)
BlankUrlEntry ==
    DictV(<< [key |-> "title", val |-> StrV("Blank")],
             [key |-> "url", val |-> StrV("")] >>)

-----------------------------------------------------------------------------
(* Functions called on their own.  arg holds the arguments, drawn by the   *)
(* initial state; ret is NoCall until a function has been applied, and     *)
(* then names the function and holds what it returned.  The server is not  *)
(* running: its globals and threads stay at NotRunning.                    *)

NoCall == [fn |-> "none"]
Called(fn, value) == [fn |-> fn, value |-> value]

NotRunning ==
    /\ PROBLEMS = <<>> /\ CATEGORIES = <<>> /\ PATTERNS = <<>>
    /\ TUTORIAL = <<>> /\ DATA_SOURCE = "" /\ LAST_REFRESHED_AT = 0
    /\ clock = 0 /\ thr = <<>>

server == <<PROBLEMS, CATEGORIES, PATTERNS, TUTORIAL, DATA_SOURCE, LAST_REFRESHED_AT,
            environ, clock, thr>>

\* ---- the aggregator on a problem list

MaxAggProblems == 6

\* What the problems of the list are drawn from: two topics, three
\* difficulties, a problem with two patterns and one that lists a pattern
\* twice.
AggShapes ==
    { [difficulty |-> "Easy", topic |-> "Array", patterns |-> <<"Hash Map">>],
      [difficulty |-> "Medium", topic |-> "Array", patterns |-> <<"Two Pointers", "Hash Map">>],
      [difficulty |-> "Hard", topic |-> "Graph", patterns |-> <<"Hash Map", "Hash Map">>] }

\* The problems of the given shapes, the i-th with id p<i> and title T<i>.
ProblemsOf(shapes) ==
    [i \in 1..Len(shapes) |->
        [id |-> "p" \o IntToStr(i), title |-> "T" \o IntToStr(i),
         url |-> "https://leetcode.com/problems/p" \o IntToStr(i) \o "/",
         difficulty |-> shapes[i].difficulty, topic |-> shapes[i].topic,
         patterns |-> shapes[i].patterns, summary |-> "s", key_steps |-> <<>>]]

InitAgg ==
    /\ NotRunning
    /\ environ = ""
    /\ arg \in {[problems |-> ProblemsOf(s)] : s \in SeqsUpTo(AggShapes, MaxAggProblems)}
    /\ ret = NoCall

CallBuildCategorySummary ==
    /\ ret' = Called("build_category_summary", build_category_summary(arg.problems))
    /\ UNCHANGED <<server, arg>>

CallBuildPatternSummary ==
    /\ ret' = Called("build_pattern_summary", build_pattern_summary(arg.problems))
    /\ UNCHANGED <<server, arg>>

NextAgg == CallBuildCategorySummary \/ CallBuildPatternSummary

SpecAgg == InitAgg /\ [][NextAgg]_vars

\* C6: the counts of build_category_summary(problems), summed over all
\* topics, give len(problems).
C6_CategoryCountsSumToLen ==
    ret.fn = "build_category_summary" =>
        SumOf(ret.value, LAMBDA e : e.count) = Len(arg.problems)

\* C6 witness: a summary of two topics built from five problems or more.
C6_Witness ==
    /\ ret.fn = "build_category_summary"
    /\ Len(ret.value) = 2
    /\ Len(arg.problems) >= 5

\* C7: the counts of build_pattern_summary(problems), summed over all
\* patterns, give the sum of len(p.patterns) over the problems, a pattern that
\* a problem lists twice counting twice.
C7_PatternCountsSumToFanOut ==
    ret.fn = "build_pattern_summary" =>
        SumOf(ret.value, LAMBDA e : e.count)
            = SumOf(arg.problems, LAMBDA p : Len(p.patterns))

\* C7 witness: a summary of two patterns, from a list holding a problem that
\* lists a pattern twice and a problem with two patterns.
C7_Witness ==
    /\ ret.fn = "build_pattern_summary"
    /\ Len(ret.value) = 2
    /\ \E i, j \in 1..Len(arg.problems) :
          /\ arg.problems[i].patterns = <<"Hash Map", "Hash Map">>
          /\ arg.problems[j].patterns = <<"Two Pointers", "Hash Map">>

\* The excerpts of the problems that carry the pattern, each problem once, in
\* input order.
Carriers(problems, pattern) ==
    LET carrying == Filter(problems, LAMBDA p : pattern \in Range(p.patterns))
    IN  [i \in 1..Len(carrying) |-> Example(carrying[i])]

\* The excerpts of the problems that list the pattern, one for each time it
\* is listed, in input order.
RECURSIVE Occurrences(_, _)
Occurrences(problems, pattern) ==
    IF problems = <<>> THEN <<>>
    ELSE LET listed == Filter(Head(problems).patterns, LAMBDA q : q = pattern)
         IN  [i \in 1..Len(listed) |-> Example(Head(problems))]
                \o Occurrences(Tail(problems), pattern)

\* C8 as stated: the examples of a pattern are at most 5 and are the first
\* min(5, count) problems that carry the pattern, in input order.
C8_ExamplesAreFirstCarriers ==
    ret.fn = "build_pattern_summary" =>
        \A i \in 1..Len(ret.value) :
            /\ Len(ret.value[i].examples) <= 5
            /\ ret.value[i].examples
                 = Take(Carriers(arg.problems, ret.value[i].key), Min(5, ret.value[i].count))

\* C8 amended: the examples of a pattern are at most 5 and are the first
\* min(5, count) listings of the pattern, in input order: a problem that
\* lists the pattern twice is an example twice.  The examples of a list are
\* those of each of its prefixes, extended: once 5 are held they stay.
C8_ExamplesAreFirstOccurrences ==
    ret.fn = "build_pattern_summary" =>
        \A i \in 1..Len(ret.value) :
            LET e == ret.value[i]
            IN  /\ Len(e.examples) <= 5
                /\ Len(e.examples) = Min(5, e.count)
                /\ e.examples = Take(Occurrences(arg.problems, e.key), 5)
                /\ \A k \in 0..Len(arg.problems) :
                      LET before == build_pattern_summary(SubSeq(arg.problems, 1, k))
                      IN  HasKey(before, e.key) =>
                            /\ Lookup(before, e.key).examples
                                 = Take(e.examples, Len(Lookup(before, e.key).examples))
                            /\ Len(Lookup(before, e.key).examples) = 5
                                 => Lookup(before, e.key).examples = e.examples

\* C8 witness: a pattern that six problems carry, with five examples.
C8_Witness ==
    /\ ret.fn = "build_pattern_summary"
    /\ \E i \in 1..Len(ret.value) :
          /\ Len(Carriers(arg.problems, ret.value[i].key)) >= 6
          /\ Len(ret.value[i].examples) = 5

\* The least number of a set of numbers.
Least(S) == CHOOSE x \in S : \A y \in S : x <= y

\* Where the topic is first seen: the position of its first problem.
TopicFirstSeen(topic) ==
    Least({i \in 1..Len(arg.problems) : arg.problems[i].topic = topic})

\* Where the pattern is first seen among the problems of the topics: the
\* rank of its first listing, the listings counted problem by problem.
PatternFirstSeen(pattern, topics) ==
    LET width == 1 + Len(arg.problems) + SumOf(arg.problems, LAMBDA p : Len(p.patterns))
    IN  Least(UNION {{i * width + j :
                        j \in {k \in 1..Len(arg.problems[i].patterns) :
                                 arg.problems[i].patterns[k] = pattern}} :
                     i \in {k \in 1..Len(arg.problems) : arg.problems[k].topic \in topics}})

\* All topics of the problems.
AllTopics == {arg.problems[i].topic : i \in 1..Len(arg.problems)}

\* C23: the topics of build_category_summary are in descending order of
\* count and the patterns of each topic in descending order of count; the
\* patterns of build_pattern_summary are in descending order of count; in
\* the three orders, of two entries of equal count the first seen in the
\* input comes first.
C23_DescendingCountTiesFirstSeen ==
    /\ ret.fn = "build_category_summary" =>
          \E categories \in {ret.value} :
              /\ \A i, j \in 1..Len(categories) :
                    i < j =>
                       \/ categories[i].count > categories[j].count
                       \/ /\ categories[i].count = categories[j].count
                          /\ TopicFirstSeen(categories[i].key) < TopicFirstSeen(categories[j].key)
              /\ \A t \in 1..Len(categories) :
                    \E listed \in {categories[t].patterns} :
                    \A i, j \in 1..Len(listed) :
                       i < j =>
                          \/ listed[i].n > listed[j].n
                          \/ /\ listed[i].n = listed[j].n
                             /\ PatternFirstSeen(listed[i].key, {categories[t].key})
                                  < PatternFirstSeen(listed[j].key, {categories[t].key})
    /\ ret.fn = "build_pattern_summary" =>
          \E patterns \in {ret.value} :
              \A i, j \in 1..Len(patterns) :
                 i < j =>
                    \/ patterns[i].count > patterns[j].count
                    \/ /\ patterns[i].count = patterns[j].count
                       /\ PatternFirstSeen(patterns[i].key, AllTopics)
                            < PatternFirstSeen(patterns[j].key, AllTopics)

\* C23 witness: two topics of equal count with Graph, seen first, before
\* Array, and in the topic Array two patterns of equal count with Two
\* Pointers, seen first, before Hash Map.
C23_Witness ==
    /\ ret.fn = "build_category_summary"
    /\ Len(ret.value) = 2
    /\ ret.value[1].key = "Graph" /\ ret.value[2].key = "Array"
    /\ ret.value[1].count = ret.value[2].count
    /\ Len(ret.value[2].patterns) = 2
    /\ ret.value[2].patterns[1].key = "Two Pointers"
    /\ ret.value[2].patterns[1].n = ret.value[2].patterns[2].n

\* C29: in build_category_summary the values of the difficulties of every
\* topic sum to its count, which is at least 1; in build_pattern_summary the
\* values of the topics of every pattern sum to its count.
C29_HistogramsSumToCount ==
    /\ ret.fn = "build_category_summary" =>
          \A i \in 1..Len(ret.value) :
              /\ ret.value[i].count >= 1
              /\ SumOf(ret.value[i].difficulties, LAMBDA e : e.n) = ret.value[i].count
    /\ ret.fn = "build_pattern_summary" =>
          \A i \in 1..Len(ret.value) :
              SumOf(ret.value[i].topics, LAMBDA e : e.n) = ret.value[i].count

\* C29 witness: a topic of three problems or more, two of them of the same
\* difficulty, beside another topic.
C29_Witness ==
    /\ ret.fn = "build_category_summary"
    /\ Len(ret.value) = 2
    /\ ret.value[1].count >= 3
    /\ Len(ret.value[1].difficulties) = 2

\* ---- the query engine on a question and the aggregate of a problem list

MaxQueryProblems == 9

QueryShapes ==
    { [difficulty |-> "Easy", topic |-> "Array", patterns |-> <<"Hash Map">>],
      [difficulty |-> "Hard", topic |-> "Graph", patterns |-> <<"Two Pointers", "Hash Map">>] }

\* Questions: a topic, a pattern in mixed case inside a phrase, a pattern
\* alone, a difficulty word alone, a difficulty word with the topic of
\* problems of another difficulty, nothing known, blanks, empty.
Questions ==
    {"array", " Two Pointers practice ", "hash map", "easy ones", "easy graph", "zq",
     " \t\n ", ""}

\* The longest list of problems among which one lists a pattern twice.
MaxListedTwice == 2

InitQuery ==
    /\ NotRunning
    /\ environ = ""
    /\ arg \in {[question |-> q, problems |-> ProblemsOf(s)] :
                    q \in Questions,
                    s \in SeqsUpTo(QueryShapes, MaxQueryProblems)
                             \cup SeqsUpTo(AggShapes, MaxListedTwice)}
    /\ ret = NoCall

CallAnswerQuestion ==
    /\ ret' = Called("answer_question",
                     answer_question(StrV(arg.question),
                                     build_category_summary(arg.problems),
                                     build_pattern_summary(arg.problems),
                                     arg.problems))
    /\ UNCHANGED <<server, arg>>

NextQuery == CallAnswerQuestion

SpecQuery == InitQuery /\ [][NextQuery]_vars

\* C9: answer_question returns at most 8 related problems.
C9_AtMostEightRelated ==
    ret.fn = "answer_question" =>
        /\ ~ret.value.raised
        /\ Len(ret.value.value.related_problems) <= 8

\* C9 witness: nine problems are related to the question and eight are
\* returned.
C9_Witness ==
    /\ ret.fn = "answer_question"
    /\ Len(Related(Normalized(arg.question), build_category_summary(arg.problems),
                   build_pattern_summary(arg.problems), arg.problems)) = 9
    /\ Len(ret.value.value.related_problems) = 8

\* C15: for a question that is empty or all whitespace, answer_question
\* returns the guidance string and no related problem, whatever the
\* problems are.
C15_BlankQuestionGetsGuidance ==
    /\ ret.fn = "answer_question"
    /\ \A i \in 1..Len(arg.question) :
          CharAt(arg.question, i) \in {" ", "\t", "\n", "\r", "\f"}
    => ret.value = Returned([answer |-> GuidanceAnswer, related_problems |-> <<>>])

\* C15 witness: a question of blanks, a tab and a newline, on two problems
\* or more.
C15_Witness ==
    /\ ret.fn = "answer_question"
    /\ arg.question = " \t\n "
    /\ Len(arg.problems) >= 2
    /\ ret.value.value.answer = GuidanceAnswer

\* The question as the engine matches it: without the whitespace around it,
\* in lower case.
Asked == Lower(Strip(arg.question))

\* What the question names: the topics and the patterns of the problems
\* whose lower-cased name it contains, and the difficulties whose word it
\* contains.
NamedIn(asked) ==
    [topics |-> {t \in {arg.problems[i].topic : i \in 1..Len(arg.problems)} :
                    Contains(asked, Lower(t))},
     patterns |-> {q \in UNION {Range(arg.problems[i].patterns) : i \in 1..Len(arg.problems)} :
                    Contains(asked, Lower(q))},
     difficulties |-> {d \in {"Easy", "Medium", "Hard"} : Contains(asked, Lower(d))}]

\* The problems related to what is named, in input order: those of a named
\* topic or pattern when one is named, else those of a named difficulty.
RelatedBy(named) ==
    IF named.topics = {} /\ named.patterns = {}
    THEN Filter(arg.problems, LAMBDA p : p.difficulty \in named.difficulties)
    ELSE Filter(arg.problems,
                LAMBDA p : \/ p.topic \in named.topics
                           \/ Range(p.patterns) \cap named.patterns # {})

\* The problems related to the question.
RelatedTo(asked) == Bind(NamedIn(asked), RelatedBy)

\* C16: for a question that is not blank, answer_question returns the
\* "could not find an exact match" string exactly when no problem is
\* related to the question by topic or pattern or, failing both, by
\* difficulty; the related list is then empty.
C16_FallbackIffNothingRelated ==
    ret.fn = "answer_question" =>
        \E asked \in {Asked} :
        asked # "" =>
        /\ ret.value.value.answer = FallbackAnswer
              <=> RelatedTo(asked) = <<>>
        /\ ret.value.value.answer = FallbackAnswer
              => ret.value.value.related_problems = <<>>
        /\ ret.value.value.related_problems = <<>>
              => ret.value.value.answer = FallbackAnswer

\* C16 witness: problems exist, but the question names nothing they have.
C16_Witness ==
    /\ ret.fn = "answer_question"
    /\ arg.question = "zq"
    /\ Len(arg.problems) >= 2
    /\ ret.value.value.answer = FallbackAnswer

\* The number of problems that list the pattern.
Using(pattern) ==
    Cardinality({i \in 1..Len(arg.problems) : pattern \in Range(arg.problems[i].patterns)})

\* The number of times problems list the pattern.
Listings(pattern) ==
    SumOf(arg.problems, LAMBDA p : Len(Filter(p.patterns, LAMBDA q : q = pattern)))

\* C17 as stated: for a pattern of the dataset that the question contains,
\* the pattern is a hit, related problems are returned, and the answer tells
\* the number of problems that use the pattern.
C17_AnswerCountsProblemsUsing ==
    ret.fn = "answer_question" =>
        \E asked \in {Asked} :
        \E named \in {NamedIn(asked).patterns} :
        named # {} =>
        \E pattern_hits \in {Hits(build_pattern_summary(arg.problems), asked)} :
        \A pattern \in named :
            /\ pattern \in Range(pattern_hits)
            /\ ret.value.value.related_problems # <<>>
            /\ Contains(ret.value.value.answer,
                        pattern \o " appears in " \o IntToStr(Using(pattern)) \o " problems")

\* C17 amended: for a pattern of the dataset that the question contains,
\* the pattern is a hit, related problems are returned, and the answer tells
\* the count of the pattern: the number of times problems list it, a
\* problem that lists it twice counting twice.
C17_AnswerCountsListings ==
    ret.fn = "answer_question" =>
        \E asked \in {Asked} :
        \E named \in {NamedIn(asked).patterns} :
        named # {} =>
        \E pattern_hits \in {Hits(build_pattern_summary(arg.problems), asked)} :
        \A pattern \in named :
            /\ pattern \in Range(pattern_hits)
            /\ ret.value.value.related_problems # <<>>
            /\ Contains(ret.value.value.answer,
                        pattern \o " appears in " \o IntToStr(Listings(pattern)) \o " problems")

\* C17 witness: the question holds "Two Pointers" in mixed case inside a
\* phrase, and three problems list the pattern.
C17_Witness ==
    /\ ret.fn = "answer_question"
    /\ arg.question = " Two Pointers practice "
    /\ Listings("Two Pointers") = 3
    /\ Len(ret.value.value.related_problems) = 3

\* C20: when the question names a topic or a pattern, the related problems
\* are the first 8 of those with a named topic or pattern, in input order,
\* whatever difficulty words the question holds; the difficulty words select
\* the problems only when nothing is named.
C20_FirstMatchWins ==
    ret.fn = "answer_question" =>
        \E asked \in {Asked} :
        asked # "" =>
        \E selected \in {RelatedTo(asked)} :
              ret.value.value.related_problems
                = [i \in 1..Min(8, Len(selected)) |-> RelatedEntry(selected[i])]

\* C20 witness: "easy graph" on Easy problems of another topic and Hard
\* problems of the topic Graph: the Hard ones are returned, no Easy one.
C20_Witness ==
    /\ ret.fn = "answer_question"
    /\ arg.question = "easy graph"
    /\ \E i \in 1..Len(arg.problems) :
          arg.problems[i].difficulty = "Easy" /\ arg.problems[i].topic # "Graph"
    /\ ret.value.value.related_problems # <<>>
    /\ \A i \in 1..Len(ret.value.value.related_problems) :
          ret.value.value.related_problems[i].difficulty = "Hard"

\* ---- the query engine on questions that name several things

MaxMixedProblems == 3

\* Questions that name a pattern and then a topic, a topic and then a
\* pattern that every problem carries, two patterns, a difficulty and a
\* pattern, a difficulty alone, nothing.
MixedQuestions ==
    {"two pointers and graph", "array with hash map", "hash map or two pointers",
     "medium hash map", "hard ones", "zq"}

\* Problem lists of every shape, alone and followed by enough problems of
\* the topic Graph for the cap of the related problems to cut.
MixedLists ==
    {s \o tail :
        s \in SeqsUpTo(AggShapes, MaxMixedProblems),
        tail \in {<<>>,
                  [i \in 1..(MaxQueryProblems - 1) |->
                      [difficulty |-> "Hard", topic |-> "Graph",
                       patterns |-> <<"Hash Map", "Hash Map">>]]}}

InitMixed ==
    /\ NotRunning
    /\ environ = ""
    /\ arg \in {[question |-> q, problems |-> ProblemsOf(s)] :
                    q \in MixedQuestions, s \in MixedLists}
    /\ ret = NoCall

SpecMixed == InitMixed /\ [][NextQuery]_vars

\* The positions in the problem list of the problems related to what is
\* named.
RelatedPositions(named) ==
    {i \in 1..Len(arg.problems) :
        \/ arg.problems[i].topic \in named.topics
        \/ Range(arg.problems[i].patterns) \cap named.patterns # {}}

\* C21: when the question names a topic or a pattern, the k-th related
\* problem returned is the problem at the k-th smallest position among the
\* problems of a named topic or carrying a named pattern, for k up to 8:
\* each such problem once, in input order, none skipped, none re-ranked.
C21_RelatedIsPrefixInInputOrder ==
    ret.fn = "answer_question" =>
        \E named \in {NamedIn(Asked)} :
        named.topics # {} \/ named.patterns # {} =>
        \E positions \in {RelatedPositions(named)} :
        \E related \in {ret.value.value.related_problems} :
            /\ Len(related) = Min(8, Cardinality(positions))
            /\ \A k \in 1..Len(related) :
                  \E i \in positions :
                      /\ Cardinality({j \in positions : j <= i}) = k
                      /\ related[k] = RelatedEntry(arg.problems[i])

\* C21 witness: a pattern and a topic are named, the first problem is not
\* related, a problem that lists the named pattern twice is, more than 8
\* problems are related and 8 are returned, the first of them not the first
\* problem.
C21_Witness ==
    /\ ret.fn = "answer_question"
    /\ arg.question = "two pointers and graph"
    /\ 1 \notin RelatedPositions(NamedIn(Asked))
    /\ Cardinality(RelatedPositions(NamedIn(Asked))) > 8
    /\ Len(ret.value.value.related_problems) = 8
    /\ ret.value.value.related_problems[1].id # "p1"

\* The first position of sub in s, 0 when s does not contain it.
Find(s, sub) ==
    IF Contains(s, sub)
    THEN CHOOSE i \in 1..(Len(s) - Len(sub) + 1) :
            /\ SubSeq(s, i, i + Len(sub) - 1) = sub
            /\ \A j \in 1..(i - 1) : SubSeq(s, j, j + Len(sub) - 1) # sub
    ELSE 0

\* How the sentence of a matched topic and of a matched pattern begin.
TopicOpening(topic) == "For " \o topic \o " problems, focus on "
PatternOpening(pattern) == pattern \o " appears in "

\* The number of full stops of the answer.  The sentence of a topic and the
\* sentence of a pattern hold two each (app.py:301, 311), the names and the
\* titles of the problems none.
FullStops(answer) == Cardinality({i \in 1..Len(answer) : CharAt(answer, i) = "."})

\* C22: in a result that is not the fallback, the answer has one sentence
\* per matched topic, in the order of the topics of the category summary,
\* then one sentence per matched pattern, in the order of the pattern
\* summary, and nothing else; it is the generic sentence alone exactly when
\* no topic and no pattern matched.
C22_AnswerIsTopicsThenPatterns ==
    /\ ret.fn = "answer_question"
    /\ ret.value.value.related_problems # <<>>
    => \E answer \in {ret.value.value.answer} :
       \E topic_hits \in {Filter(Keys(build_category_summary(arg.problems)),
                                  LAMBDA t : Contains(Asked, Lower(t)))} :
       \E pattern_hits \in {Filter(Keys(build_pattern_summary(arg.problems)),
                                    LAMBDA q : Contains(Asked, Lower(q)))} :
       \E openings \in {[i \in 1..Len(topic_hits) |-> TopicOpening(topic_hits[i])]
                           \o [i \in 1..Len(pattern_hits) |-> PatternOpening(pattern_hits[i])]} :
           /\ openings = <<>> <=> answer = GenericSentence
           /\ openings # <<>> =>
                 /\ ~Contains(answer, GenericSentence)
                 /\ Find(answer, openings[1]) = 1
                 /\ \A i \in 1..Len(openings) : Find(answer, openings[i]) > 0
                 /\ \A i \in 1..(Len(openings) - 1) :
                       Find(answer, openings[i]) < Find(answer, openings[i + 1])
                 /\ FullStops(answer) = 2 * Len(openings)

\* C22 witness: the question names the pattern before the topic, and the
\* answer has the sentence of the topic before that of the pattern.
C22_Witness ==
    /\ ret.fn = "answer_question"
    /\ arg.question = "two pointers and graph"
    /\ Find(ret.value.value.answer, TopicOpening("Graph")) = 1
    /\ Find(ret.value.value.answer, PatternOpening("Two Pointers")) > 1

\* ---- normalise_sequence on a raw value

MaxItems == 2

\* The scalars of a list-valued field: null, strings empty and not, numbers
\* zero and not.
SeqScalars == {None, StrV(""), StrV("dp"), StrV("bfs"), IntV(0), IntV(7)}

\* The values of a list-valued field: a scalar, a list of scalars, a
\* mapping to scalars.
SeqValues ==
    SeqScalars
    \cup {ListV(items) : items \in SeqsUpTo(SeqScalars, MaxItems)}
    \cup {DictV([i \in 1..Len(items) |-> [key |-> "k" \o IntToStr(i), val |-> items[i]]]) :
             items \in SeqsUpTo(SeqScalars, MaxItems)}

InitSeq ==
    /\ NotRunning
    /\ environ = ""
    /\ arg \in {[value |-> v] : v \in SeqValues}
    /\ ret = NoCall

CallNormaliseSequence ==
    /\ ret' = Called("normalise_sequence", normalise_sequence(arg.value))
    /\ UNCHANGED <<server, arg>>

NextSeq == CallNormaliseSequence

SpecSeq == InitSeq /\ [][NextSeq]_vars

\* The items of a list, the values of a mapping, in order.
ItemsOf(value) ==
    IF value.t = "dict" THEN [i \in 1..Len(value.v) |-> value.v[i].val] ELSE value.v

\* The text of a scalar item: a string as it is, a number in decimal, null
\* as "None".
TextOf(item) ==
    IF item.t = "str" THEN item.v
    ELSE IF item.t = "int" THEN IntToStr(item.v)
    ELSE "None"

\* An item that is null, an empty string or zero.
EmptyItem(item) == item \in {None, StrV(""), IntV(0)}

\* The list is the texts of the items at the given positions, in order.
IsTextsAt(list, items, positions) ==
    /\ Len(list) = Cardinality(positions)
    /\ \A k \in 1..Len(list) :
          \E i \in positions :
              /\ Cardinality({j \in positions : j <= i}) = k
              /\ list[k] = TextOf(items[i])

\* C24 as stated: an absent value (null, or empty) gives the empty list, a
\* scalar string the list of that string, a mapping the list of its values,
\* every one of them, any other iterable the list of its stringified
\* non-empty items, and anything else the empty list.
C24_RulesAsStated ==
    ret.fn = "normalise_sequence" =>
        \E value \in {arg.value} :
            IF value \in {None, StrV(""), IntV(0), ListV(<<>>), DictV(<<>>)}
            THEN ret.value = <<>>
            ELSE CASE value.t = "str" -> ret.value = <<value.v>>
                   [] value.t = "dict" ->
                         IsTextsAt(ret.value, ItemsOf(value), 1..Len(value.v))
                   [] value.t = "list" ->
                         IsTextsAt(ret.value, value.v,
                                   {i \in 1..Len(value.v) : ~EmptyItem(value.v[i])})
                   [] OTHER -> ret.value = <<>>

\* C24 amended: a value that is null, empty or zero gives the empty list; a
\* string that is not empty gives the list of that string; a mapping gives
\* the texts of its values that are not empty, in order; a list gives the
\* texts of its items that are not empty, in order; anything else gives the
\* empty list.
C24_RulesOfTheCode ==
    ret.fn = "normalise_sequence" =>
        \E value \in {arg.value} :
            IF value \in {None, StrV(""), IntV(0), ListV(<<>>), DictV(<<>>)}
            THEN ret.value = <<>>
            ELSE CASE value.t = "str" -> ret.value = <<value.v>>
                   [] value.t \in {"dict", "list"} ->
                         \E items \in {ItemsOf(value)} :
                             IsTextsAt(ret.value, items,
                                       {i \in 1..Len(items) : ~EmptyItem(items[i])})
                   [] OTHER -> ret.value = <<>>

\* C24 witness: a mapping whose first value is empty and whose second is
\* not gives the second alone.
C24_Witness ==
    /\ ret.fn = "normalise_sequence"
    /\ arg.value.t = "dict"
    /\ Len(arg.value.v) = 2
    /\ arg.value.v[1].val = StrV("")
    /\ arg.value.v[2].val = IntV(7)
    /\ ret.value = <<"7">>

\* ---- the normaliser on a raw record, alone and among valid records

\* The items of a dict for one key: none (the key is absent), or one for
\* each of the values.
Opt(key, values) == {<<>>} \cup {<< [key |-> key, val |-> v] >> : v \in values}

\* Raw records.  First, every combination of the keys that decide whether a
\* record is kept and what its id falls back to, with absent, empty, null
\* and non-empty values.  Second, on a record that is kept, every
\* combination of the keys of the id, the difficulty and the patterns.
\* Third, values that are no dict.
RawEntries ==
    { DictV(a \o b \o c \o d \o e \o f) :
        a \in Opt("title", {StrV(""), StrV("Two Sum")}),
        b \in Opt("name", {StrV("Alt")}),
        c \in Opt("url", {None, StrV(""), StrV("https://leetcode.com/problems/x/")}),
        d \in Opt("slug", {StrV(""), StrV("two-sum")}),
        e \in Opt("titleSlug", {StrV("ts")}),
        f \in Opt("id", {IntV(0), StrV("7")}) }
    \cup
    { DictV(<< [key |-> "title", val |-> StrV("Two Sum")],
               [key |-> "slug", val |-> StrV("two-sum")] >>
            \o f \o g \o h \o k \o l \o m) :
        f \in Opt("id", {IntV(0), StrV("7")}),
        g \in Opt("questionId", {StrV(""), StrV("8")}),
        h \in Opt("frontendQuestionId", {StrV("9")}),
        k \in Opt("difficulty", {StrV("Easy"), StrV("Expert")}),
        l \in Opt("level", {StrV("Hard")}),
        m \in Opt("patterns", {StrV("Hash Map"),
                               ListV(<<StrV("Hash Map"), None, StrV("Hash Map")>>),
                               IntV(5)}) }
    \cup {None, StrV("Two Sum"), ListV(<<StrV("Two Sum")>>), IntV(1)}

InitNorm ==
    /\ NotRunning
    /\ environ = ""
    /\ \E e \in RawEntries :
          arg \in {[entry |-> e, payload |-> p] :
                      p \in {<<e>>, <<RemoteEntryA, e, RemoteEntryB>>}}
    /\ ret = NoCall

CallNormalise ==
    /\ ret' = Called("normalise_mcp_problem", normalise_mcp_problem(arg.entry))
    /\ UNCHANGED <<server, arg>>

CallFetchList ==
    /\ ret' = Called("fetch_problems_from_mcp",
                     fetch_problems_from_mcp(Replied(ListV(arg.payload))))
    /\ UNCHANGED <<server, arg>>

NextNorm == CallNormalise \/ CallFetchList

SpecNorm == InitNorm /\ [][NextNorm]_vars

\* A dict without a non-empty title under any of its keys; a dict with
\* neither a url nor a slug.
Untitled(entry) ==
    entry.t = "dict" /\ \A k \in {"title", "name", "question"} : ~Truthy(Get(entry, k))
Unaddressed(entry) ==
    entry.t = "dict" /\ \A k \in {"url", "slug", "titleSlug"} : ~Truthy(Get(entry, k))

\* The payload without the record under test.
Others(payload) == IF Len(payload) = 1 THEN <<>> ELSE <<payload[1], payload[3]>>

\* C10: for a raw record without a non-empty title, or with neither url nor
\* slug, normalise_mcp_problem returns None; fetched among other records, the
\* record adds no problem to the collection and nothing to a count of the
\* category and pattern summaries: the outcome is that of the fetch without
\* the record.
C10_DroppedRecordContributesNothing ==
    Untitled(arg.entry) \/ Unaddressed(arg.entry) =>
        /\ ret.fn = "normalise_mcp_problem" => ret.value = None
        /\ ret.fn = "fetch_problems_from_mcp" =>
              /\ ret.value = fetch_problems_from_mcp(Replied(ListV(Others(arg.payload))))
              /\ ret.value.raised <=> Others(arg.payload) = <<>>
              /\ ~ret.value.raised =>
                    /\ Len(ret.value.value) = Len(Others(arg.payload))
                    /\ SumOf(build_category_summary(ret.value.value), LAMBDA e : e.count)
                         = Len(Others(arg.payload))
                    /\ SumOf(build_pattern_summary(ret.value.value), LAMBDA e : e.count)
                         = Len(Others(arg.payload))

\* C10 witness: a record with a title and neither url nor slug, fetched
\* between two valid records, of which two problems come out.
C10_Witness ==
    /\ ret.fn = "fetch_problems_from_mcp"
    /\ Unaddressed(arg.entry) /\ ~Untitled(arg.entry)
    /\ Len(arg.payload) = 3
    /\ ~ret.value.raised
    /\ Len(ret.value.value) = 2

\* C14: the difficulty of every problem that normalise_mcp_problem returns is
\* Easy, Medium, Hard or Unknown.
C14_DifficultyIsKnown ==
    ret.fn = "normalise_mcp_problem" /\ ret.value # None =>
        ret.value.difficulty \in {"Easy", "Medium", "Hard", "Unknown"}

\* The keys of a problem dict (app.py:87-96).
ProblemKeys ==
    {"id", "title", "url", "difficulty", "topic", "patterns", "summary", "key_steps"}

\* C18: normalise_mcp_problem ends in no exception: for every raw value it
\* returns None or a problem dict, and None for every value that is no
\* dict; no exception of it leaves the loop of fetch_problems_from_mcp,
\* which fails only with the ValueError of an empty collection.
C18_NormaliseReturnsProblemOrNone ==
    /\ ret.fn = "normalise_mcp_problem" =>
          /\ ret.value = None \/ DOMAIN ret.value = ProblemKeys
          /\ arg.entry.t # "dict" => ret.value = None
    /\ ret.fn = "fetch_problems_from_mcp" /\ ret.value.raised =>
          ret.value.exc = "ValueError"

\* C18 witness: a list where a record is expected, between two valid
\* records, of which two problems come out.
C18_Witness ==
    /\ ret.fn = "fetch_problems_from_mcp"
    /\ arg.entry.t = "list"
    /\ Len(arg.payload) = 3
    /\ ~ret.value.raised
    /\ Len(ret.value.value) = 2

\* The first of the values that is truthy, None when none is.
FirstTruthy(values) ==
    IF \E i \in 1..Len(values) : Truthy(values[i])
    THEN values[CHOOSE i \in 1..Len(values) :
                    Truthy(values[i]) /\ \A j \in 1..(i - 1) : ~Truthy(values[j])]
    ELSE None

\* C19: the id of a problem that normalise_mcp_problem returns is the first
\* non-empty value among id, questionId and frontendQuestionId of the raw
\* record, else its slug (slug, then titleSlug), else its title; it is
\* never empty.
C19_IdIsFirstNonEmpty ==
    ret.fn = "normalise_mcp_problem" /\ ret.value # None =>
        LET entry == arg.entry
            ids == FirstTruthy(<<Get(entry, "id"), Get(entry, "questionId"),
                                 Get(entry, "frontendQuestionId")>>)
            slug == FirstTruthy(<<Get(entry, "slug"), Get(entry, "titleSlug")>>)
        IN  /\ ret.value.id # ""
            /\ ret.value.id =
                  IF ids # None THEN ids.v
                  ELSE IF slug # None THEN slug.v
                  ELSE ret.value.title

\* C19 witness: id is 0 and questionId is empty, so frontendQuestionId is
\* taken although the record has a slug.
C19_Witness ==
    /\ ret.fn = "normalise_mcp_problem"
    /\ arg.entry.t = "dict"
    /\ Get(arg.entry, "id") = IntV(0)
    /\ Get(arg.entry, "questionId") = StrV("")
    /\ Get(arg.entry, "slug") = StrV("two-sum")
    /\ ret.value # None
    /\ ret.value.id = "9"

\* ---- loading, on what the server replies

MaxPayload == 2

PayloadEntries ==
    {RemoteEntryA, RemoteEntryB, UntitledEntry, UnaddressedEntry, BlankTitleEntry,
     BlankUrlEntry, StrV("junk")}

\* The replies: every failure of the fetch; a list of records, bare or under
\* the key "problems"; and payloads that hold no list.
LoadReplies ==
    {Failed(exc) : exc \in FetchErrors}
    \cup {Replied(ListV(p)) : p \in SeqsUpTo(PayloadEntries, MaxPayload)}
    \cup {Replied(DictV(<< [key |-> "problems", val |-> ListV(p)] >>)) :
            p \in SeqsUpTo(PayloadEntries, MaxPayload)}
    \cup {Replied(DictV(<<>>)), Replied(StrV("oops")), Replied(None)}

InitLoad ==
    /\ NotRunning
    /\ environ \in {"", Endpoint}
    /\ arg \in {[reply |-> r] : r \in LoadReplies}
    /\ ret = NoCall

CallFetch ==
    /\ ret' = Called("fetch_problems_from_mcp", fetch_problems_from_mcp(arg.reply))
    /\ UNCHANGED <<server, arg>>

CallLoadProblems ==
    /\ ret' = Called("load_problems", load_problems(environ, arg.reply))
    /\ UNCHANGED <<server, arg>>

CallInitialiseData ==
    /\ ret' = Called("initialise_data", initialise_data(environ, arg.reply, 0))
    /\ UNCHANGED <<server, arg>>

NextLoad == CallFetch \/ CallLoadProblems \/ CallInitialiseData

SpecLoad == InitLoad /\ [][NextLoad]_vars

\* The server answered a list of records and none of them is kept.
EmptyAfterNormalisation(reply) ==
    /\ reply.ok
    /\ LET payload == reply.payload
           problem_payload == IF payload.t = "dict" THEN Get(payload, "problems") ELSE payload
       IN  /\ problem_payload.t = "list"
           /\ \A i \in 1..Len(problem_payload.v) :
                 normalise_mcp_problem(problem_payload.v[i]) = None

\* C3 as stated: when the collection is empty after normalisation, the
\* failure reaches the caller of load_problems and of initialise_data.
C3_EmptyCollectionPropagates ==
    /\ environ # ""
    /\ ret.fn \in {"load_problems", "initialise_data"}
    /\ EmptyAfterNormalisation(arg.reply)
    => ret.value.raised

\* C3 amended: when the collection fetched from the server is empty after
\* normalisation, fetch_problems_from_mcp fails with ValueError; load_problems
\* catches it and returns the local dataset under the local source, and
\* initialise_data builds its aggregate: the caller sees no failure.
C3_EmptyCollectionFallsBack ==
    EmptyAfterNormalisation(arg.reply) =>
        /\ ret.fn = "fetch_problems_from_mcp" => ret.value = Raised("ValueError")
        /\ ret.fn = "load_problems" /\ environ # "" =>
              ret.value = Returned([problems |-> LocalProblems, source |-> LocalSource])
        /\ ret.fn = "initialise_data" /\ environ # "" =>
              /\ ~ret.value.raised
              /\ ret.value.value.problems = LocalProblems
              /\ ret.value.value.source = LocalSource

\* C3 witness: load_problems, with an endpoint, on a reply of two records
\* that are both dropped.
C3_Witness ==
    /\ ret.fn = "load_problems"
    /\ environ # ""
    /\ EmptyAfterNormalisation(arg.reply)
    /\ arg.reply.payload.t = "list"
    /\ Len(arg.reply.payload.v) = 2
    /\ ~ret.value.raised

C4_FetchFailureNeverPropagates ==
    ret.fn \in {"load_problems", "initialise_data"} /\ ~arg.reply.ok =>
        /\ ~ret.value.raised
        /\ ret.value.value.source = LocalSource

-----------------------------------------------------------------------------
(* The server: the module globals and the request handlers of app.py.      *)
(*                                                                         *)
(* Requests are served by threads (app.run serves each request in its own  *)
(* thread); a thread serves one request and is then done, holding the      *)
(* response it gave.  No lock is held, and another thread can run between *)
(* any two bytecodes: the tuple assignment of refresh_data is six          *)
(* STORE_GLOBALs, the argument list of ask_question three LOAD_GLOBALs.    *)
(* A handler is therefore a sequence of steps, each one access to a module *)
(* global together with the thread-local computation that precedes it      *)
(* (and, for the last access, that follows it).                            *)

MaxClock == 1

\* The threads that serve a refresh, named in the order their requests
\* arrive, and the thread that serves a question.
RefreshOrder == <<"r1", "r2">>
Refreshers == Range(RefreshOrder)
Askers == {"q1"}
Threads == Refreshers \cup Askers

\* What the server does when a refresh asks it: it answers a list with two
\* valid records, answers a list whose records are all dropped, refuses the
\* connection, or cuts the body short.
ServerReplies ==
    { Replied(ListV(<<RemoteEntryA, UntitledEntry, RemoteEntryB>>)),
      Replied(ListV(<<UntitledEntry, UnaddressedEntry>>)),
      Failed("URLError"),
      Failed("IncompleteRead") }

\* The position of a thread, its local variables and the response it gave.
NoResponse == [status |-> 0]
Ok(body) == [status |-> 200, body |-> body]
ServerError(exc) == [status |-> 500, exc |-> exc]

IdleThread == [pc |-> "idle", local |-> [k |-> 0], resp |-> NoResponse]

\* The module is imported: app.py:356-363 assign the globals from the first
\* pipeline run, before any request is served.
Init ==
    /\ environ \in {"", Endpoint}
    /\ clock = 0
    /\ \E reply \in ServerReplies :
          \E made \in {initialise_data(environ, reply, clock)} :
              /\ ~made.raised
              /\ PROBLEMS = made.value.problems
              /\ CATEGORIES = made.value.categories
              /\ PATTERNS = made.value.patterns
              /\ TUTORIAL = made.value.tutorial
              /\ DATA_SOURCE = made.value.source
              /\ LAST_REFRESHED_AT = made.value.timestamp
    /\ thr = [t \in Threads |-> IdleThread]
    /\ arg = <<>>
    /\ ret = NoCall

\* refresh_data up to the first STORE_GLOBAL (app.py:412-419): the pipeline
\* runs on what the server replies, at a time not before any time read so
\* far, and PROBLEMS takes its first value.  An exception of the pipeline
\* leaves the handler.
RefreshCall(t) ==
    /\ thr[t].pc = "idle"
    /\ \A i, j \in 1..Len(RefreshOrder) :
          i < j /\ RefreshOrder[j] = t => thr[RefreshOrder[i]].pc # "idle"
    /\ \E reply \in ServerReplies, now \in clock..MaxClock :
          \E made \in {initialise_data(environ, reply, now)} :
              /\ clock' = now
              /\ PROBLEMS' = IF made.raised THEN PROBLEMS ELSE made.value.problems
              /\ thr' = [thr EXCEPT ![t] =
                           IF made.raised
                           THEN [pc |-> "done", local |-> [k |-> 0],
                                 resp |-> ServerError(made.exc)]
                           ELSE [pc |-> "store", local |-> [k |-> 2, made |-> made.value],
                                 resp |-> NoResponse]]
    /\ UNCHANGED <<CATEGORIES, PATTERNS, TUTORIAL, DATA_SOURCE, LAST_REFRESHED_AT,
                   environ, arg, ret>>

\* refresh_data, the next STORE_GLOBAL of the tuple assignment
\* (app.py:412-419): the k-th target takes the k-th value.
RefreshStore(t) ==
    /\ thr[t].pc = "store"
    /\ LET k == thr[t].local.k
           made == thr[t].local.made
       IN  /\ CATEGORIES' = IF k = 2 THEN made.categories ELSE CATEGORIES
           /\ PATTERNS' = IF k = 3 THEN made.patterns ELSE PATTERNS
           /\ TUTORIAL' = IF k = 4 THEN made.tutorial ELSE TUTORIAL
           /\ DATA_SOURCE' = IF k = 5 THEN made.source ELSE DATA_SOURCE
           /\ LAST_REFRESHED_AT' = IF k = 6 THEN made.timestamp ELSE LAST_REFRESHED_AT
           /\ thr' = [thr EXCEPT ![t] =
                        IF k < 6 THEN [@ EXCEPT !.local.k = k + 1]
                        ELSE [@ EXCEPT !.pc = "respond", !.local = [k |-> 0]]]
    /\ UNCHANGED <<PROBLEMS, environ, clock, arg, ret>>

\* refresh_data, the response (app.py:420-426): status "ok".  The source and
\* the time it also reports are read from the globals and go to the client
\* only; they are left out of the thread's record.
RefreshRespond(t) ==
    /\ thr[t].pc = "respond"
    /\ thr' = [thr EXCEPT ![t] =
                 [pc |-> "done", local |-> [k |-> 0], resp |-> Ok([status |-> "ok"])]]
    /\ UNCHANGED <<globals, environ, clock, arg, ret>>

\* The bodies a client posts to /api/questions: none or not JSON, a question
\* that is null, a number or a pattern name, and a JSON list.
RequestBodies ==
    { None,
      DictV(<< [key |-> "question", val |-> None] >>),
      DictV(<< [key |-> "question", val |-> IntV(5)] >>),
      DictV(<< [key |-> "question", val |-> StrV("hash map")] >>),
      ListV(<< StrV("hash map") >>) }

\* request.get_json(silent=True) or {} (app.py:403)
PayloadOf(body) == Or(body, DictV(<<>>))

\* payload.get("question", "") (app.py:404), for a dict payload
QuestionOf(payload) ==
    IF HasKey(payload.v, "question") THEN Get(payload, "question") ELSE StrV("")

\* ask_question up to the first LOAD_GLOBAL (app.py:403-405): the payload,
\* the question, and CATEGORIES.  Only a dict has get().
AskCall(t) ==
    /\ thr[t].pc = "idle"
    /\ \E body \in RequestBodies :
          thr' = [thr EXCEPT ![t] =
                    IF PayloadOf(body).t # "dict"
                    THEN [pc |-> "done", local |-> [k |-> 0, body |-> body],
                          resp |-> ServerError("AttributeError")]
                    ELSE [pc |-> "load",
                          local |-> [k |-> 2, body |-> body,
                                     categories |-> CATEGORIES, patterns |-> <<>>],
                          resp |-> NoResponse]]
    /\ UNCHANGED <<globals, environ, clock, arg, ret>>

\* ask_question, the second LOAD_GLOBAL of the argument list (app.py:405):
\* PATTERNS.
AskLoad(t) ==
    /\ thr[t].pc = "load"
    /\ thr[t].local.k = 2
    /\ thr' = [thr EXCEPT ![t] = [@ EXCEPT !.local.patterns = PATTERNS, !.local.k = 3]]
    /\ UNCHANGED <<globals, environ, clock, arg, ret>>

\* ask_question from the third LOAD_GLOBAL on (app.py:405-406): PROBLEMS,
\* the call of answer_question and the response.  An exception leaves the
\* handler.  The thread keeps what it passed.
AskAnswer(t) ==
    /\ thr[t].pc = "load"
    /\ thr[t].local.k = 3
    /\ \E local \in {thr[t].local} :
       \E response \in {answer_question(QuestionOf(PayloadOf(local.body)),
                                        local.categories, local.patterns, PROBLEMS)} :
           thr' = [thr EXCEPT ![t] =
                     [pc |-> "done",
                      local |-> [k |-> 0, body |-> local.body,
                                 categories |-> local.categories,
                                 patterns |-> local.patterns,
                                 problems |-> PROBLEMS],
                      resp |-> IF response.raised THEN ServerError(response.exc)
                               ELSE Ok(response.value)]]
    /\ UNCHANGED <<globals, environ, clock, arg, ret>>

Next ==
    \/ \E t \in Refreshers : RefreshCall(t) \/ RefreshStore(t) \/ RefreshRespond(t)
    \/ \E t \in Askers : AskCall(t) \/ AskLoad(t) \/ AskAnswer(t)

Spec == Init /\ [][Next]_vars

\* What one pipeline run can leave in the globals, at any time.
PipelineRuns ==
    {initialise_data(environ, reply, now).value :
        reply \in {r \in ServerReplies : ~initialise_data(environ, r, 0).raised},
        now \in 0..MaxClock}

\* C1: the CATEGORIES, PATTERNS and PROBLEMS that ask_question passes to
\* answer_question are those of one pipeline run, also when a refresh runs
\* at the same time.
C1_ReaderSeesOneRun ==
    \A t \in Askers :
        thr[t].pc = "done" /\ thr[t].resp.status = 200 =>
            \E run \in PipelineRuns :
                /\ thr[t].local.categories = run.categories
                /\ thr[t].local.patterns = run.patterns
                /\ thr[t].local.problems = run.problems

\* C2: once every refresh_data call has finished, the six globals are those
\* of one pipeline run.
C2_GlobalsFromOneRun ==
    (\A t \in Refreshers : thr[t].pc = "done") =>
        \E run \in PipelineRuns :
            /\ PROBLEMS = run.problems
            /\ CATEGORIES = run.categories
            /\ PATTERNS = run.patterns
            /\ TUTORIAL = run.tutorial
            /\ DATA_SOURCE = run.source
            /\ LAST_REFRESHED_AT = run.timestamp

\* C5: whatever the request body, ask_question answers, and when the body
\* holds no question that is a string it answers as for the empty question:
\* the guidance with no related problem.
C5_AskNeverRaises ==
    \A t \in Askers :
        thr[t].pc = "done" =>
            /\ thr[t].resp.status = 200
            /\ (PayloadOf(thr[t].local.body).t # "dict"
                \/ QuestionOf(PayloadOf(thr[t].local.body)).t # "str")
                 => thr[t].resp.body = [answer |-> GuidanceAnswer, related_problems |-> <<>>]

-----------------------------------------------------------------------------
(* One client, one request at a time, as the test client of                *)
(* tests/test_app.py: each handler runs from its first line to its         *)
(* response before the next request is sent.  arg holds the reply the      *)
(* server gave to the latest request (reply), the reply the aggregate in   *)
(* place was built from (loaded), and the aggregate as it was before the   *)
(* latest request (before) with the reply it was built from (built_from).  *)

Aggregate ==
    [problems |-> PROBLEMS, categories |-> CATEGORIES, patterns |-> PATTERNS,
     tutorial |-> TUTORIAL, source |-> DATA_SOURCE, timestamp |-> LAST_REFRESHED_AT]

InitClient ==
    /\ environ \in {"", Endpoint}
    /\ clock = 0
    /\ \E reply \in ServerReplies :
          \E made \in {initialise_data(environ, reply, clock)} :
              /\ ~made.raised
              /\ PROBLEMS = made.value.problems
              /\ CATEGORIES = made.value.categories
              /\ PATTERNS = made.value.patterns
              /\ TUTORIAL = made.value.tutorial
              /\ DATA_SOURCE = made.value.source
              /\ LAST_REFRESHED_AT = made.value.timestamp
              /\ arg = [reply |-> reply, loaded |-> reply, built_from |-> reply,
                        before |-> made.value]
    /\ thr = <<>>
    /\ ret = NoCall

\* refresh_data with every store of a run added to what the globals hold:
\* the problems are appended and the summaries are those of the longer list.
RefreshDataAccumulating ==
    \E reply \in ServerReplies, now \in clock..MaxClock :
        \E made \in {initialise_data(environ, reply, now)} :
            /\ clock' = now
            /\ arg' = [reply |-> reply,
                       loaded |-> IF made.raised THEN arg.loaded ELSE reply,
                       built_from |-> arg.loaded,
                       before |-> Aggregate]
            /\ IF made.raised
               THEN /\ UNCHANGED globals
                    /\ ret' = Called("refresh_data", ServerError(made.exc))
               ELSE /\ PROBLEMS' = PROBLEMS \o made.value.problems
                    /\ CATEGORIES' = build_category_summary(PROBLEMS')
                    /\ PATTERNS' = build_pattern_summary(PROBLEMS')
                    /\ TUTORIAL' = made.value.tutorial
                    /\ DATA_SOURCE' = made.value.source
                    /\ LAST_REFRESHED_AT' = made.value.timestamp
                    /\ ret' = Called("refresh_data",
                                     Ok([status |-> "ok", source |-> made.value.source,
                                         last_refreshed |-> made.value.timestamp]))
            /\ UNCHANGED <<environ, thr>>

\* refresh_data that stores the time of a run that failed.
RefreshDataStampingFailure ==
    \E reply \in ServerReplies, now \in clock..MaxClock :
        \E made \in {initialise_data(environ, reply, now)} :
            /\ clock' = now
            /\ arg' = [reply |-> reply,
                       loaded |-> IF made.raised THEN arg.loaded ELSE reply,
                       built_from |-> arg.loaded,
                       before |-> Aggregate]
            /\ IF made.raised
               THEN /\ LAST_REFRESHED_AT' = now
                    /\ UNCHANGED <<PROBLEMS, CATEGORIES, PATTERNS, TUTORIAL, DATA_SOURCE>>
                    /\ ret' = Called("refresh_data", ServerError(made.exc))
               ELSE /\ PROBLEMS' = made.value.problems
                    /\ CATEGORIES' = made.value.categories
                    /\ PATTERNS' = made.value.patterns
                    /\ TUTORIAL' = made.value.tutorial
                    /\ DATA_SOURCE' = made.value.source
                    /\ LAST_REFRESHED_AT' = made.value.timestamp
                    /\ ret' = Called("refresh_data",
                                     Ok([status |-> "ok", source |-> made.value.source,
                                         last_refreshed |-> made.value.timestamp]))
            /\ UNCHANGED <<environ, thr>>

\* refresh_data (app.py:409-426), whole: the pipeline runs, the six globals
\* take its values and the response reports the source and the time.  An
\* exception of the pipeline leaves the handler before any store.
RefreshData ==
    \E reply \in ServerReplies, now \in clock..MaxClock :
        \E made \in {initialise_data(environ, reply, now)} :
            /\ clock' = now
            /\ arg' = [reply |-> reply,
                       loaded |-> IF made.raised THEN arg.loaded ELSE reply,
                       built_from |-> arg.loaded,
                       before |-> Aggregate]
            /\ IF made.raised
               THEN /\ UNCHANGED globals
                    /\ ret' = Called("refresh_data", ServerError(made.exc))
               ELSE /\ PROBLEMS' = made.value.problems
                    /\ CATEGORIES' = made.value.categories
                    /\ PATTERNS' = made.value.patterns
                    /\ TUTORIAL' = made.value.tutorial
                    /\ DATA_SOURCE' = made.value.source
                    /\ LAST_REFRESHED_AT' = made.value.timestamp
                    /\ ret' = Called("refresh_data",
                                     Ok([status |-> "ok", source |-> made.value.source,
                                         last_refreshed |-> made.value.timestamp]))
            /\ UNCHANGED <<environ, thr>>

\* get_meta (app.py:376-383): the source and the time of the last refresh,
\* in seconds here (isoformat() keeps the order of the times).
GetMeta ==
    /\ ret' = Called("get_meta",
                     Ok([source |-> DATA_SOURCE, last_refreshed |-> LAST_REFRESHED_AT]))
    /\ UNCHANGED <<server, arg>>

\* get_problems (app.py:371-373)
GetProblems ==
    /\ ret' = Called("get_problems", Ok([problems |-> PROBLEMS]))
    /\ UNCHANGED <<server, arg>>

\* get_categories (app.py:386-388)
GetCategories ==
    /\ ret' = Called("get_categories", Ok([categories |-> CATEGORIES]))
    /\ UNCHANGED <<server, arg>>

\* get_patterns (app.py:391-393)
GetPatterns ==
    /\ ret' = Called("get_patterns", Ok([patterns |-> PATTERNS]))
    /\ UNCHANGED <<server, arg>>

\* get_tutorial (app.py:396-398)
GetTutorial ==
    /\ ret' = Called("get_tutorial", Ok([tutorial |-> TUTORIAL]))
    /\ UNCHANGED <<server, arg>>

\* ask_question (app.py:401-406), whole: the payload, the question, the call
\* of answer_question on the globals and the response.  Only a dict payload
\* has get(); an exception leaves the handler.
AskQuestion ==
    /\ \E body \in RequestBodies :
       \E payload \in {PayloadOf(body)} :
           IF payload.t # "dict"
           THEN ret' = Called("ask_question", ServerError("AttributeError"))
           ELSE \E response \in {answer_question(QuestionOf(payload),
                                                  CATEGORIES, PATTERNS, PROBLEMS)} :
                   ret' = Called("ask_question",
                                 IF response.raised THEN ServerError(response.exc)
                                 ELSE Ok(response.value))
    /\ UNCHANGED <<server, arg>>

\* get_system_status (app.py:918-935): the sizes of PROBLEMS and PATTERNS,
\* the source and the time; the health of the services is left out.
GetSystemStatus ==
    /\ ret' = Called("get_system_status",
                     Ok([total_problems |-> Len(PROBLEMS), total_patterns |-> Len(PATTERNS),
                         data_source |-> DATA_SOURCE, last_refreshed |-> LAST_REFRESHED_AT]))
    /\ UNCHANGED <<server, arg>>

\* What a crawl would store: one problem, of a topic with one pattern.
CrawledProblems ==
    ProblemsOf(<<[difficulty |-> "Easy", topic |-> "Array", patterns |-> <<"Hash Map">>]>>)

\* crawl_problems with a logger: the crawl succeeds and the handler stores
\* the aggregate of the crawled problems.
CrawlProblemsStoring ==
    /\ PROBLEMS' = CrawledProblems
    /\ CATEGORIES' = build_category_summary(PROBLEMS')
    /\ PATTERNS' = build_pattern_summary(PROBLEMS')
    /\ TUTORIAL' = build_tutorial(CATEGORIES', PATTERNS')
    /\ DATA_SOURCE' = "LeetCode MCP Server + AI Analysis"
    /\ LAST_REFRESHED_AT' = clock
    /\ ret' = Called("crawl_problems", Ok([status |-> "success"]))
    /\ UNCHANGED <<environ, clock, thr, arg>>

\* crawl_problems with a logger and a summary build that raises: PROBLEMS is
\* stored, the other globals are not, and the handler answers 500.
CrawlProblemsFailingAfterStore ==
    /\ PROBLEMS' = CrawledProblems
    /\ ret' = Called("crawl_problems", ServerError("KeyError"))
    /\ UNCHANGED <<CATEGORIES, PATTERNS, TUTORIAL, DATA_SOURCE, LAST_REFRESHED_AT,
                   environ, clock, thr, arg>>

\* crawl_problems (app.py:431-498), whole.  Its first statement reads the
\* name logger (app.py:435), which app.py never binds (it imports logging,
\* app.py:9): NameError.  The handler of the try reads logger again
\* (app.py:497) and raises NameError in turn, which leaves the view: the
\* request ends in a server error and no statement between them runs, the
\* stores of app.py:477-483 included.
CrawlProblems ==
    /\ ret' = Called("crawl_problems", ServerError("NameError"))
    /\ UNCHANGED <<server, arg>>

NextClient ==
    \/ RefreshData
    \/ GetMeta
    \/ GetProblems
    \/ GetCategories
    \/ GetPatterns
    \/ GetTutorial
    \/ AskQuestion
    \/ GetSystemStatus
    \/ CrawlProblems

SpecClient == InitClient /\ [][NextClient]_vars

C12_TimestampNeverDecreases == [][LAST_REFRESHED_AT' >= LAST_REFRESHED_AT]_vars

C26_DerivedMatchesCollection ==
    (\A t \in Refreshers : thr[t].pc \in {"idle", "done"}) =>
        /\ CATEGORIES = build_category_summary(PROBLEMS)
        /\ PATTERNS = build_pattern_summary(PROBLEMS)
        /\ TUTORIAL = build_tutorial(CATEGORIES, PATTERNS)

\* C27: a refresh_data call that ends in an exception of the pipeline
\* leaves the six globals as they were before the call.
C27_FailedRefreshChangesNothing ==
    ret.fn = "refresh_data" /\ ret.value.status = 500 => Aggregate = arg.before

\* C27 witness: the server cut the body short, the refresh failed with
\* IncompleteRead, and the aggregate of the server's problems is in place.
C27_Witness ==
    /\ ret.fn = "refresh_data"
    /\ ret.value.status = 500
    /\ ret.value.exc = "IncompleteRead"
    /\ DATA_SOURCE = RemoteSource(Endpoint)
    /\ PROBLEMS # <<>>

-----------------------------------------------------------------------------
(* The paging client: mcp_client.py LeetCodeMCPClient.get_all_problems.    *)
(* arg holds the limit, thr the position of the loop with len(problems)    *)
(* and offset, ret the call once it has ended.  A record of the server is  *)
(* kept or dropped by _enhance_problem_data (mcp_client.py:160-193): a     *)
(* page is its number of records and the number of them that are kept.     *)

\* if len(problem_list) < 50 (mcp_client.py:139)
PageSize == 50

MaxLimit == 3

\* The offset grows with every page.  It is sent to the server and decides
\* nothing else, so it is kept modulo MaxOffset + 1: a pass that reads a
\* page still changes it.
MaxOffset == 100

\* The limits a caller passes: none, some, and a negative one.
Limits == -1..MaxLimit

\* What a call of search_problems leaves the loop with
\* (mcp_client.py:28-64, 117-127): an exception that leaves _call_tool (its
\* handler reads the unbound name uri, mcp_client.py:63), a value that ends
\* the loop (empty, not a dict, without problems), or a page of records:
\* short, full, or longer than asked, with none, one or all of its records
\* kept.
Batches ==
    {[kind |-> "raises", size |-> 0, good |-> 0], [kind |-> "stop", size |-> 0, good |-> 0]}
    \cup {[kind |-> "page", size |-> n, good |-> g] :
             n \in {1, PageSize, PageSize + 1}, g \in {0, 1}}
    \cup {[kind |-> "page", size |-> n, good |-> n] : n \in {PageSize, PageSize + 1}}

InitPaging ==
    /\ PROBLEMS = <<>> /\ CATEGORIES = <<>> /\ PATTERNS = <<>>
    /\ TUTORIAL = <<>> /\ DATA_SOURCE = "" /\ LAST_REFRESHED_AT = 0
    /\ clock = 0
    /\ environ = ""
    /\ arg \in {[limit |-> l] : l \in Limits}
    /\ thr = [pc |-> "while", count |-> 0, offset |-> 0]
    /\ ret = NoCall

\* The while test fails (mcp_client.py:115): len(problems) has reached the
\* limit, and the problems are returned (mcp_client.py:142-143).
ReturnProblems ==
    /\ thr.pc = "while"
    /\ thr.count >= arg.limit
    /\ thr' = [thr EXCEPT !.pc = "done"]
    /\ ret' = Called("get_all_problems", Returned([len |-> thr.count]))
    /\ UNCHANGED <<globals, environ, clock, arg>>

\* One pass of the loop (mcp_client.py:115-140): the call, the two tests
\* that break, the records kept until the limit is reached, the offset, and
\* the break on a page shorter than 50.
SearchBatch ==
    /\ thr.pc = "while"
    /\ thr.count < arg.limit
    /\ \E batch \in Batches :
          \E count \in {thr.count + Min(batch.good, arg.limit - thr.count)} :
          \E offset \in {(thr.offset + batch.size) % (MaxOffset + 1)} :
              CASE batch.kind = "raises" ->
                      /\ thr' = [thr EXCEPT !.pc = "done"]
                      /\ ret' = Called("get_all_problems", Raised("NameError"))
                [] batch.kind = "stop" ->
                      /\ thr' = [thr EXCEPT !.pc = "done"]
                      /\ ret' = Called("get_all_problems", Returned([len |-> thr.count]))
                [] batch.kind = "page" /\ batch.size < PageSize ->
                      /\ thr' = [pc |-> "done", count |-> count, offset |-> offset]
                      /\ ret' = Called("get_all_problems", Returned([len |-> count]))
                [] batch.kind = "page" /\ batch.size >= PageSize ->
                      /\ thr' = [pc |-> "while", count |-> count, offset |-> offset]
                      /\ ret' = ret
    /\ UNCHANGED <<globals, environ, clock, arg>>

NextPaging == ReturnProblems \/ SearchBatch

\* The interpreter goes on with the loop, and every call of the server
\* comes back, with a value or an exception.
SpecPaging == InitPaging /\ [][NextPaging]_vars /\ WF_vars(NextPaging)

\* C30: get_all_problems ends, by a return or an exception, whatever the
\* limit and whatever the server answers, full pages of records that are
\* all dropped included.
C30_GetAllProblemsTerminates == <>(thr.pc = "done")

\* When get_all_problems returns, it returns no more problems than the
\* limit, or none when the limit is negative.
ReturnsAtMostLimit ==
    ret.fn = "get_all_problems" /\ ~ret.value.raised =>
        ret.value.value.len <= (IF arg.limit < 0 THEN 0 ELSE arg.limit)

=============================================================================
